---- MODULE Spec2Model ----
(***************************************************************************)
(* A model of pyreportjasper's JasperPy (src/pyreportjasper/jasperpy.py):  *)
(* the operations process and process_json, the process-wide stream        *)
(* handles of the hosted JVM (java.lang.System.in / System.out) and the    *)
(* calls made on the report engine.                                        *)
(*                                                                         *)
(* Every failure in the source is a Python NameError; the kind of a        *)
(* failure is told apart by the message the code builds, which the model   *)
(* keeps as the value of result.                                           *)
(***************************************************************************)
EXTENDS Integers, Sequences, FiniteSets, TLC

VARIABLES
    sysOut,       \* jvSystem.out: the JVM's process-wide output stream handle
    sysIn,        \* jvSystem.in: the JVM's process-wide input stream handle
    pc,           \* pc[t]: position of thread t inside process
    args,         \* args[t]: the arguments of the call of thread t
    savedStdin,   \* savedStdin[t]: local of process (line 217)
    savedStdout,  \* savedStdout[t]: local of process (line 218)
    exc,          \* exc[t]: the exception in flight inside the try of process
    idx,          \* idx[t]: position of the for loop over format_list
    trace,        \* trace[t]: the engine and stream calls made by the call
    result,       \* result[t]: what the call gave its caller
    overlapped,   \* history: two process calls were in flight at once
    pj            \* the state of the one process_json call (see below)

vars == <<sysOut, sysIn, pc, args, savedStdin, savedStdout, exc, idx, trace,
          result, overlapped, pj>>

procVars == <<sysOut, sysIn, pc, args, savedStdin, savedStdout, exc, idx,
              trace, result, overlapped>>

----------------------------------------------------------------------------
(* Bounds of the model. *)

\* longest format_list a caller passes
MaxFormats == 2

\* The threads that call process.
Threads == {"t1", "t2"}

----------------------------------------------------------------------------
(* Class constants. *)

\* JasperPy._FORMATS, a tuple of 13 strings
FORMATS ==
    <<"pdf", "rtf", "xls", "xlsx", "docx", "odt", "ods", "pptx", "csv",
      "html", "xhtml", "xml", "jrprint">>

\* `x in tuple`: equality with one of the elements
InTuple(x, tup) == \E i \in 1..Len(tup) : tup[i] = x

----------------------------------------------------------------------------
(* Values. *)

\* A Python str is a sequence of one-character strings where the code looks
\* inside it (int(), split, substring test) and a TLA+ string elsewhere.
NoMsg == "none"

\* the messages of the NameErrors raised by process
ErrNoInput == "No input file!"
ErrInvalidFormat == "Invalid format!"
ErrNotList == "'format_list' value is not list!"
ErrProcess == "Error: %s"

\* the stream handles
OrigOut == [stream |-> "System.out", owner |-> "jvm"]
OrigIn == [stream |-> "System.in", owner |-> "jvm"]
TmpOut(t) == [stream |-> "PrintStream(tmpStdout)", owner |-> t]
NoStream == [stream |-> "unset", owner |-> "none"]

\* format_list arguments: a list of strings, or a value that is not a list
SeqsUpTo(S, n) == UNION {[1..k -> S] : k \in 0..n}
FormatCandidates == {FORMATS[i] : i \in 1..Len(FORMATS)} \cup {"bmp"}
FormatLists ==
    {[isList |-> TRUE, items |-> s] : s \in SeqsUpTo(FormatCandidates, MaxFormats)}
        \cup {[isList |-> FALSE, items |-> <<>>]}

\* db_connection arguments: the dictionaries the model draws
EmptyDict == [k \in {} |-> <<>>]
DbConnections ==
    {EmptyDict, [k \in {"port"} |-> <<"5", "4">>], [k \in {"port"} |-> <<"x">>]}

ProcessInputFiles == {"", "report.jrxml"}

ProcessArgs ==
    [input_file : ProcessInputFiles, format_list : FormatLists,
     db_connection : DbConnections]

\* the arguments of the calls that run concurrently
ConcurrentArgs ==
    [input_file : ProcessInputFiles,
     format_list : {[isList |-> TRUE, items |-> s] :
                       s \in SeqsUpTo({"pdf", "bmp"}, MaxFormats)},
     db_connection : {EmptyDict, [k \in {"port"} |-> <<"x">>]}]

NoArgs == [input_file |-> "", format_list |-> [isList |-> FALSE, items |-> <<>>],
           db_connection |-> EmptyDict]

----------------------------------------------------------------------------
(* Pure functions of process. *)

Digits == {"0", "1", "2", "3", "4", "5", "6", "7", "8", "9"}

\* int(s) succeeds: a non-empty run of decimal digits
IntParses(s) == Len(s) > 0 /\ \A i \in 1..Len(s) : s[i] \in Digits

\* lines 117-121: the message raised by the format_list check, or NoMsg
FormatListCheck(format_list) ==
    IF format_list.isList
    THEN IF \E i \in 1..Len(format_list.items) :
                ~InTuple(format_list.items[i], FORMATS)
         THEN ErrInvalidFormat
         ELSE NoMsg
    ELSE ErrNotList

\* lines 114-121: the message raised before the try, or NoMsg
ValidateProcess(a) ==
    IF a.input_file = "" THEN ErrNoInput ELSE FormatListCheck(a.format_list)

\* lines 154-201: the configuration raises (int() of a port that is no number)
ConfigRaises(db_connection) ==
    /\ "port" \in DOMAIN db_connection
    /\ ~IntParses(db_connection["port"])

\* ExportOp with the xlsx branch calling the xls export
ExportOp_Mutant(format_out) ==
    CASE format_out = "pdf" -> "exportPdf"
      [] format_out = "rtf" -> "exportRtf"
      [] format_out = "xls" -> "exportXls"
      [] format_out = "xlsx" -> "exportXls"
      [] format_out = "docx" -> "exportDocx"
      [] format_out = "odt" -> "exportOdt"
      [] format_out = "ods" -> "exportOds"
      [] format_out = "pptx" -> "exportPptx"
      [] format_out = "csv" -> "exportCsv"
      [] format_out = "html" -> "exportHtml"
      [] format_out = "xhtml" -> "exportXhtml"
      [] format_out = "xml" -> "exportXml"
      [] format_out = "jrprint" -> "exportJrprint"
      [] OTHER -> "not implemented"

\* lines 224-251: the Report method called for one element of format_list
ExportOp(format_out) ==
    CASE format_out = "pdf" -> "exportPdf"
      [] format_out = "rtf" -> "exportRtf"
      [] format_out = "xls" -> "exportXls"
      [] format_out = "xlsx" -> "exportXlsx"
      [] format_out = "docx" -> "exportDocx"
      [] format_out = "odt" -> "exportOdt"
      [] format_out = "ods" -> "exportOds"
      [] format_out = "pptx" -> "exportPptx"
      [] format_out = "csv" -> "exportCsv"
      [] format_out = "html" -> "exportHtml"
      [] format_out = "xhtml" -> "exportXhtml"
      [] format_out = "xml" -> "exportXml"
      [] format_out = "jrprint" -> "exportJrprint"
      [] OTHER -> "not implemented"

----------------------------------------------------------------------------
(* process, one action per step.  A step that calls the engine draws whether *)
(* the engine raises.                                                       *)

InFlight(t) == pc[t] \notin {"idle", "returned"}

\* a caller enters process with arguments drawn from argSet
Call(t, argSet) ==
    /\ pc[t] = "idle"
    /\ \E a \in argSet : args' = [args EXCEPT ![t] = a]
    /\ pc' = [pc EXCEPT ![t] = "validate"]
    /\ overlapped' = (overlapped \/ \E u \in Threads \ {t} : InFlight(u))
    /\ UNCHANGED <<sysOut, sysIn, savedStdin, savedStdout, exc, idx, trace,
                   result, pj>>

\* callers that serialize their calls: nobody else is inside process
CallSerial(t) ==
    /\ \A u \in Threads \ {t} : pc[u] = "idle"
    /\ Call(t, ProcessArgs)

\* callers that do not
CallConcurrent(t) == Call(t, ConcurrentArgs)

\* lines 114-121
Validate(t) ==
    /\ pc[t] = "validate"
    /\ LET msg == ValidateProcess(args[t])
       IN IF msg = NoMsg
          THEN /\ pc' = [pc EXCEPT ![t] = "config"]
               /\ UNCHANGED result
          ELSE /\ pc' = [pc EXCEPT ![t] = "returned"]
               /\ result' = [result EXCEPT ![t] = msg]
    /\ UNCHANGED <<sysOut, sysIn, args, savedStdin, savedStdout, exc, idx,
                   trace, overlapped, pj>>

\* lines 124-211: the configuration object is built and filled
Configure(t) ==
    /\ pc[t] = "config"
    /\ trace' = [trace EXCEPT ![t] = Append(@, "Config")]
    /\ IF ConfigRaises(args[t].db_connection)
       THEN /\ pc' = [pc EXCEPT ![t] = "returned"]
            /\ result' = [result EXCEPT ![t] = ErrProcess]
       ELSE /\ pc' = [pc EXCEPT ![t] = "report"]
            /\ UNCHANGED result
    /\ UNCHANGED <<sysOut, sysIn, args, savedStdin, savedStdout, exc, idx,
                   overlapped, pj>>

\* line 216: the Report is constructed; the engine may raise
NewReport(t) ==
    /\ pc[t] = "report"
    /\ trace' = [trace EXCEPT ![t] = Append(@, "Report")]
    /\ \E raises \in BOOLEAN :
         IF raises
         THEN /\ pc' = [pc EXCEPT ![t] = "returned"]
              /\ result' = [result EXCEPT ![t] = ErrProcess]
         ELSE /\ pc' = [pc EXCEPT ![t] = "save_stdin"]
              /\ UNCHANGED result
    /\ UNCHANGED <<sysOut, sysIn, args, savedStdin, savedStdout, exc, idx,
                   overlapped, pj>>

\* line 217
SaveStdin(t) ==
    /\ pc[t] = "save_stdin"
    /\ savedStdin' = [savedStdin EXCEPT ![t] = sysIn]
    /\ pc' = [pc EXCEPT ![t] = "save_stdout"]
    /\ UNCHANGED <<sysOut, sysIn, args, savedStdout, exc, idx, trace, result,
                   overlapped, pj>>

\* lines 218-219
SaveStdout(t) ==
    /\ pc[t] = "save_stdout"
    /\ savedStdout' = [savedStdout EXCEPT ![t] = sysOut]
    /\ pc' = [pc EXCEPT ![t] = "redirect"]
    /\ UNCHANGED <<sysOut, sysIn, args, savedStdin, exc, idx, trace, result,
                   overlapped, pj>>

\* line 221
Redirect(t) ==
    /\ pc[t] = "redirect"
    /\ sysOut' = TmpOut(t)
    /\ trace' = [trace EXCEPT ![t] = Append(@, "setOut(tmp)")]
    /\ pc' = [pc EXCEPT ![t] = "fill"]
    /\ UNCHANGED <<sysIn, args, savedStdin, savedStdout, exc, idx, result,
                   overlapped, pj>>

\* an exception raised inside the try leaves process without the finally
AfterEngineCall_Mutant(raises) == IF raises THEN "leave" ELSE "export"

\* where an exception raised inside the try (lines 220-251) goes: the finally
AfterEngineCall(raises) == IF raises THEN "flush" ELSE "export"

\* line 222
Fill(t) ==
    /\ pc[t] = "fill"
    /\ trace' = [trace EXCEPT ![t] = Append(@, "fill")]
    /\ \E raises \in BOOLEAN :
         /\ exc' = [exc EXCEPT ![t] = raises]
         /\ pc' = [pc EXCEPT ![t] = AfterEngineCall(raises)]
    /\ idx' = [idx EXCEPT ![t] = 1]
    /\ UNCHANGED <<sysOut, sysIn, args, savedStdin, savedStdout, result,
                   overlapped, pj>>

\* lines 223-251: one turn of the loop over format_list
Export(t) ==
    /\ pc[t] = "export"
    /\ LET items == args[t].format_list.items
       IN IF idx[t] > Len(items)
          THEN /\ pc' = [pc EXCEPT ![t] = "flush"]
               /\ UNCHANGED <<trace, exc, idx>>
          ELSE LET op == ExportOp(items[idx[t]])
               IN IF op = "not implemented"
                  THEN /\ exc' = [exc EXCEPT ![t] = TRUE]
                       /\ pc' = [pc EXCEPT ![t] = "flush"]
                       /\ UNCHANGED <<trace, idx>>
                  ELSE /\ trace' = [trace EXCEPT ![t] = Append(@, op)]
                       /\ idx' = [idx EXCEPT ![t] = @ + 1]
                       /\ \E raises \in BOOLEAN :
                            /\ exc' = [exc EXCEPT ![t] = raises]
                            /\ pc' = [pc EXCEPT ![t] = AfterEngineCall(raises)]
    /\ UNCHANGED <<sysOut, sysIn, args, savedStdin, savedStdout, result,
                   overlapped, pj>>

\* line 253
Flush(t) ==
    /\ pc[t] = "flush"
    /\ trace' = [trace EXCEPT ![t] = Append(@, "flush")]
    /\ pc' = [pc EXCEPT ![t] = "restore_in"]
    /\ UNCHANGED <<sysOut, sysIn, args, savedStdin, savedStdout, exc, idx,
                   result, overlapped, pj>>

\* line 254
RestoreIn(t) ==
    /\ pc[t] = "restore_in"
    /\ sysIn' = savedStdin[t]
    /\ trace' = [trace EXCEPT ![t] = Append(@, "setIn(saved)")]
    /\ pc' = [pc EXCEPT ![t] = "restore_out"]
    /\ UNCHANGED <<sysOut, args, savedStdin, savedStdout, exc, idx, result,
                   overlapped, pj>>

\* line 255 installing the handle that is current, not the saved one
RestoredOut_Mutant(t) == sysOut

\* the handle line 255 installs
RestoredOut(t) == savedStdout[t]

\* line 255
RestoreOut(t) ==
    /\ pc[t] = "restore_out"
    /\ sysOut' = RestoredOut(t)
    /\ trace' = [trace EXCEPT ![t] = Append(@, "setOut(saved)")]
    /\ pc' = [pc EXCEPT ![t] = "leave"]
    /\ UNCHANGED <<sysIn, args, savedStdin, savedStdout, exc, idx, result,
                   overlapped, pj>>

\* lines 259-262: return 0, or the exception wrapped by the outer except
Leave(t) ==
    /\ pc[t] = "leave"
    /\ result' = [result EXCEPT ![t] = IF exc[t] THEN ErrProcess ELSE "0"]
    /\ pc' = [pc EXCEPT ![t] = "returned"]
    /\ UNCHANGED <<sysOut, sysIn, args, savedStdin, savedStdout, exc, idx,
                   trace, overlapped, pj>>

\* the caller has the result and drops the call's locals
Forget(t) ==
    /\ pc[t] = "returned"
    /\ pc' = [pc EXCEPT ![t] = "idle"]
    /\ args' = [args EXCEPT ![t] = NoArgs]
    /\ savedStdin' = [savedStdin EXCEPT ![t] = NoStream]
    /\ savedStdout' = [savedStdout EXCEPT ![t] = NoStream]
    /\ exc' = [exc EXCEPT ![t] = FALSE]
    /\ idx' = [idx EXCEPT ![t] = 0]
    /\ trace' = [trace EXCEPT ![t] = <<>>]
    /\ result' = [result EXCEPT ![t] = NoMsg]
    /\ UNCHANGED <<sysOut, sysIn, overlapped, pj>>

ProcessStep(t) ==
    \/ Validate(t)
    \/ Configure(t)
    \/ NewReport(t)
    \/ SaveStdin(t)
    \/ SaveStdout(t)
    \/ Redirect(t)
    \/ Fill(t)
    \/ Export(t)
    \/ Flush(t)
    \/ RestoreIn(t)
    \/ RestoreOut(t)
    \/ Leave(t)
    \/ Forget(t)

----------------------------------------------------------------------------
(* process_json: values.  A str the code looks inside is a sequence of      *)
(* one-character strings.  locale and resource keep their defaults (False   *)
(* and ""), for which lines 281-282 and 349-352 do nothing.                 *)

\* JasperPy._FORMATS_JSON: ('pdf') is the str 'pdf', not a tuple
FORMATS_JSON == <<"p", "d", "f">>

\* JasperPy._FORMATS_METHODS_REQUEST
FORMATS_METHODS_REQUEST == <<"GET", "POST", "PUT">>

\* `key in text` for two strs: key is a contiguous part of text
InStr(key, text) ==
    \E i \in 1..(Len(text) + 1) :
        /\ i + Len(key) - 1 <= Len(text)
        /\ SubSeq(text, i, i + Len(key) - 1) = key

\* a value that is not a str
NonStr == "<int>"
IsStr(v) == v # NonStr

\* a local name that was never assigned
Unbound == <<"<unbound>">>

\* a falsy output_file (the default, False)
OutputOmitted == <<>>

JsonInputFiles == {<<>>, <<"d", "/", "r", ".", "j">>, <<"r", ".", "j">>}
JsonOutputFiles == {OutputOmitted, <<"o", ".", "p">>}

JsonFormatCandidates ==
    {<<"p", "d", "f">>, <<"p">>, <<"d", "f">>, <<>>, <<"x", "l", "s">>}
JsonFormatLists ==
    {[isList |-> TRUE, items |-> s] :
        s \in SeqsUpTo(JsonFormatCandidates, MaxFormats)}
        \cup {[isList |-> FALSE, items |-> <<>>]}
OnlyPdf == [isList |-> TRUE, items |-> <<FORMATS_JSON>>]

ParameterDicts == {EmptyDict, "title" :> "x"}

\* dictionaries are functions on the keys present
Opt(k, vals) == {EmptyDict} \cup {k :> v : v \in vals}
Both(A, B) == {a @@ b : a \in A, b \in B}

UrlParams == "q" :> "1"
UrlData == "body" :> "b"
UrlHeader == "Accept" :> "json"

SourceDicts ==
    Both(Opt("driver", {"json", "jsonql", "csv"}), Opt("data_file", {"data.json"}))
JsonKeyDicts ==
    Both(Both(Opt("json_locale", {"en"}), Opt("json_date_pattern", {"y"})),
         Both(Opt("json_number_pattern", {"#"}), Opt("json_time_zone", {"UTC"})))
UrlDicts ==
    Both({"url_file" :> "http://h/d"},
         Both(Both(Opt("url_method", {"GET", "POST", "PUT", "DELETE", NonStr}),
                   Opt("url_params", {UrlParams})),
              Both(Both(Opt("url_data", {UrlData}), Opt("url_data_post", {"1"})),
                   Opt("url_header", {UrlHeader}))))

\* the connection arguments: a source, with the json_* keys or a remote fetch
Connections == Both(SourceDicts, JsonKeyDicts \cup UrlDicts)
SimpleConnection == ("driver" :> "jsonql") @@ ("data_file" :> "data.json")

\* the calls the model draws: every format_list with a plain connection, and
\* every connection with the default format_list
JsonArgs ==
    [input_file : JsonInputFiles, output_file : JsonOutputFiles,
     format_list : JsonFormatLists, parameters : {EmptyDict},
     connection : {SimpleConnection}]
    \cup
    [input_file : JsonInputFiles, output_file : JsonOutputFiles,
     format_list : {OnlyPdf}, parameters : ParameterDicts,
     connection : Connections]

\* what the HTTP server may answer
StatusCodes == {"200", "404", "500"}

----------------------------------------------------------------------------
(* process_json: pure functions. *)

\* str.split(sep) for a one-character sep
RECURSIVE Split(_, _)
Split(s, sep) ==
    IF \E i \in 1..Len(s) : s[i] = sep
    THEN LET i == CHOOSE k \in 1..Len(s) :
                    s[k] = sep /\ \A m \in 1..(k - 1) : s[m] # sep
         IN <<SubSeq(s, 1, i - 1)>> \o Split(SubSeq(s, i + 1, Len(s)), sep)
    ELSE <<s>>

\* str.rstrip('/')
RECURSIVE RStripSlash(_)
RStripSlash(s) ==
    IF Len(s) > 0 /\ s[Len(s)] = "/" THEN RStripSlash(SubSeq(s, 1, Len(s) - 1))
    ELSE s

\* os.path.dirname (posix)
Dirname(p) ==
    LET cut == IF \E i \in 1..Len(p) : p[i] = "/"
               THEN CHOOSE k \in 1..Len(p) :
                        p[k] = "/" /\ \A m \in (k + 1)..Len(p) : p[m] # "/"
               ELSE 0
        head == SubSeq(p, 1, cut)
    IN IF head # <<>> /\ \E i \in 1..Len(head) : head[i] # "/"
       THEN RStripSlash(head)
       ELSE head

\* os.path.join of two parts (posix)
Join(a, b) ==
    IF Len(b) > 0 /\ b[1] = "/" THEN b
    ELSE IF a = <<>> \/ a[Len(a)] = "/" THEN a \o b
    ELSE a \o <<"/">> \o b

DotJasper == <<".", "j", "a", "s", "p", "e", "r">>
DotPdf == <<".", "p", "d", "f">>

\* lines 286-288
NameFile(input_file) ==
    LET list_patch == Split(input_file, "/")
        list_name_extesion == Split(list_patch[Len(list_patch)], ".")
    IN list_name_extesion[1]

\* line 289
FileOut(input_file) == Join(Dirname(input_file), NameFile(input_file) \o DotJasper)

\* line 290
DerivedOutput(input_file) ==
    Join(Dirname(input_file), NameFile(input_file) \o DotPdf)

\* lines 272-276: the message raised by the format_list check, or <<>>
JsonFormatListCheck(format_list) ==
    IF format_list.isList
    THEN IF \E i \in 1..Len(format_list.items) :
                ~InStr(format_list.items[i], FORMATS_JSON)
         THEN <<"Invalid format output!">>
         ELSE <<>>
    ELSE <<"'format_list' value is not list!">>

\* lines 269-276
ValidateJson(a) ==
    IF a.input_file = <<>> THEN <<"No input file!">>
    ELSE JsonFormatListCheck(a.format_list)

\* line 294: [k + '=' + v for k, v in parameters.items()]
RenderParams(parameters) == {<<k, "=", parameters[k]>> : k \in DOMAIN parameters}

\* lines 295-301: the data-source type set on the configuration
DbType(connection) ==
    IF "driver" \in DOMAIN connection
    THEN IF connection["driver"] = "json" THEN "json"
         ELSE IF connection["driver"] = "jsonql" THEN "jsonql"
         ELSE "unset"
    ELSE "none"

\* lines 312-316: the message raised for url_method, or <<>>
MethodCheck(connection) ==
    IF "url_method" \notin DOMAIN connection THEN <<"'url_method'">>
    ELSE IF IsStr(connection["url_method"])
    THEN IF ~InTuple(connection["url_method"], FORMATS_METHODS_REQUEST)
         THEN <<"Invalid method request!">>
         ELSE <<>>
    ELSE <<"'url_method' value is not list!">>

\* line 318
PARAMS(connection) ==
    IF "url_params" \in DOMAIN connection THEN connection["url_params"]
    ELSE EmptyDict

\* the key line 319 tests before it reads connection['url_data']
DataGuardKey == "url_data_post"

\* line 319 raises KeyError
DataRaises(connection) ==
    DataGuardKey \in DOMAIN connection /\ "url_data" \notin DOMAIN connection

\* line 319
DATA(connection) ==
    IF DataGuardKey \in DOMAIN connection THEN connection["url_data"]
    ELSE EmptyDict

\* line 320
HEADER(connection) ==
    IF "url_header" \in DOMAIN connection THEN connection["url_header"]
    ELSE EmptyDict

\* lines 324-330
PreparedRequest(connection) ==
    [method |-> connection["url_method"], url |-> connection["url_file"],
     data |-> DATA(connection), headers |-> HEADER(connection),
     params |-> PARAMS(connection)]

NoRequest ==
    [method |-> "none", url |-> "none", data |-> EmptyDict,
     headers |-> EmptyDict, params |-> EmptyDict]

\* the keys of connection lines 364-378 copy, with the engine's parameter names
JsonKeys ==
    <<<<"json_locale", "JSON_LOCALE">>,
      <<"json_date_pattern", "JSON_DATE_PATTERN">>,
      <<"json_number_pattern", "JSON_NUMBER_PATTERN">>,
      <<"json_time_zone", "JSON_TIME_ZONE">>>>

\* lines 364-378: the entries put into the parameter map
JsonEntries(connection) ==
    LET present == {i \in 1..Len(JsonKeys) : JsonKeys[i][1] \in DOMAIN connection}
        at(k) == CHOOSE i \in present : JsonKeys[i][2] = k
    IN [k \in {JsonKeys[i][2] : i \in present} |->
          <<"Locale", connection[JsonKeys[at(k)][1]]>>]

\* HashMap.put of every entry of puts into map
PutAll(map, puts) == puts @@ map

\* 'Error: %s' % str(e), and 'Error request: %s' % str(e)
Wrap(prefix, msg) == <<prefix>> \o msg

EngineError == <<"<engine exception>">>

----------------------------------------------------------------------------
(* process_json, one action per step.  pj holds the one call's state:       *)
(*   pc           position in process_json                                  *)
(*   args         the arguments                                             *)
(*   tmp_dir      the TemporaryDirectory of line 268 exists                 *)
(*   tmp_files    the files written inside it                               *)
(*   config       the engine configuration object, as far as it was set     *)
(*   file_out, output_file, parameters   locals of process_json             *)
(*   request      the HTTP request sent                                     *)
(*   response     the status code of the answer                             *)
(*   trace        the engine calls made                                     *)
(*   fill         the arguments handed to fillReport                        *)
(*   pdf          the path handed to exportReportToPdfFile                  *)
(*   raised       the message of the exception leaving the with block       *)
(*   returned     "0" after return 0, "raised" after an exception           *)

NoConfig ==
    [input |-> Unbound, output |-> Unbound, params |-> {}, dbType |-> "none",
     dataFile |-> Unbound]

NoFill == [file |-> Unbound, parameters |-> EmptyDict]

NoJsonArgs ==
    [input_file |-> <<>>, output_file |-> OutputOmitted,
     format_list |-> [isList |-> FALSE, items |-> <<>>],
     parameters |-> EmptyDict, connection |-> EmptyDict]

PjIdle ==
    [pc |-> "idle", args |-> NoJsonArgs, tmp_dir |-> FALSE, tmp_files |-> {},
     config |-> NoConfig, file_out |-> Unbound, output_file |-> Unbound,
     parameters |-> EmptyDict, request |-> NoRequest, response |-> "none",
     trace |-> <<>>,
     fill |-> NoFill, pdf |-> Unbound, raised |-> <<>>, returned |-> "none"]

\* an exception leaves the with block: its __exit__ runs next
PjRaise(msg) == [pj EXCEPT !.pc = "cleanup", !.raised = msg]

\* line 268: the call enters the with block
PjCall ==
    /\ pj.pc = "idle"
    /\ \E a \in JsonArgs :
         pj' = [PjIdle EXCEPT !.pc = "validate", !.args = a, !.tmp_dir = TRUE,
                              !.output_file = a.output_file,
                              !.parameters = a.parameters]
    /\ UNCHANGED procVars

\* lines 269-276
PjValidate ==
    /\ pj.pc = "validate"
    /\ LET msg == ValidateJson(pj.args)
       IN pj' = IF msg = <<>> THEN [pj EXCEPT !.pc = "config"] ELSE PjRaise(msg)
    /\ UNCHANGED procVars

\* lines 279-301
PjConfigure ==
    /\ pj.pc = "config"
    /\ LET a == pj.args
           omitted == (pj.output_file = OutputOmitted)
           cfg == [input |-> a.input_file,
                   output |-> IF omitted THEN Dirname(a.input_file)
                              ELSE pj.output_file,
                   params |-> RenderParams(pj.parameters),
                   dbType |-> DbType(a.connection),
                   dataFile |-> Unbound]
       IN pj' = [pj EXCEPT
                   !.pc = "datasource",
                   !.trace = Append(@, "Config"),
                   !.config = cfg,
                   !.file_out = IF omitted THEN FileOut(a.input_file) ELSE @,
                   !.output_file = IF omitted THEN DerivedOutput(a.input_file)
                                   ELSE @]
    /\ UNCHANGED procVars

\* lines 303-308
PjDataSource ==
    /\ pj.pc = "datasource"
    /\ LET c == pj.args.connection
       IN pj' =
            IF DOMAIN c = {} THEN [pj EXCEPT !.pc = "report"]
            ELSE IF "data_file" \notin DOMAIN c /\ "url_file" \notin DOMAIN c
            THEN PjRaise(Wrap("Error: ", <<"No data sources were reported">>))
            ELSE [pj EXCEPT
                    !.pc = IF "url_file" \in DOMAIN c THEN "fetch" ELSE "report",
                    !.config.dataFile =
                        IF "data_file" \in DOMAIN c THEN <<c["data_file"]>> ELSE @]
    /\ UNCHANGED procVars

\* line 332 refusing only the server errors
StatusOk_Mutant(status) == status # "500"

\* line 332: the response counts as fetched
StatusOk(status) == status = "200"

TmpJson == <<"tmp_dir", "data_report.json">>

\* lines 310-341: the remote fetch; the server draws the status and whether
\* the body is JSON
PjFetch ==
    /\ pj.pc = "fetch"
    /\ LET c == pj.args.connection
           fail(msg) == PjRaise(Wrap("Error: ", Wrap("Error request: ", msg)))
       IN IF MethodCheck(c) # <<>> THEN pj' = fail(MethodCheck(c))
          ELSE IF DataRaises(c) THEN pj' = fail(<<"'url_data'">>)
          ELSE \E status \in StatusCodes, bodyIsJson \in BOOLEAN :
                 LET sent == [pj EXCEPT !.request = PreparedRequest(c),
                                        !.response = status]
                 IN pj' =
                      IF StatusOk(status)
                      THEN IF bodyIsJson
                           THEN [sent EXCEPT !.pc = "report",
                                             !.tmp_files = @ \cup {TmpJson},
                                             !.config.dataFile = TmpJson]
                           ELSE [sent EXCEPT
                                   !.pc = "cleanup",
                                   !.raised = Wrap("Error: ",
                                       Wrap("Error request: ", <<"<not JSON>">>))]
                      ELSE [sent EXCEPT
                              !.pc = "cleanup",
                              !.raised = Wrap("Error: ", Wrap("Error request: ",
                                  <<"Error request status code: ", status>>))]
    /\ UNCHANGED procVars

\* line 354: the Report is constructed; the engine may raise
PjReport ==
    /\ pj.pc = "report"
    /\ \E raises \in BOOLEAN :
         pj' = IF raises
               THEN [PjRaise(Wrap("Error: ", EngineError))
                        EXCEPT !.trace = Append(@, "Report")]
               ELSE [pj EXCEPT !.pc = "compile", !.trace = Append(@, "Report")]
    /\ UNCHANGED procVars

\* lines 74-94: compile(report); the engine may raise, which compile wraps
PjCompile ==
    /\ pj.pc = "compile"
    /\ \E raises \in BOOLEAN :
         pj' = IF raises
               THEN [PjRaise(Wrap("Error: ", Wrap("Error: ", EngineError)))
                        EXCEPT !.trace = Append(@, "compileToFile")]
               ELSE [pj EXCEPT !.pc = "params",
                               !.trace = Append(@, "compileToFile")]
    /\ UNCHANGED procVars

\* line 356 missing: parameters stays the caller's dictionary
FreshMap_Mutant(parameters) == parameters

\* line 356: the map the name parameters is bound to
FreshMap(parameters) == EmptyDict

\* lines 356-359; the engine decides hasAskFilter and what the prompt gives
PjParams ==
    /\ pj.pc = "params"
    /\ \E hasAskFilter \in BOOLEAN :
         IF hasAskFilter
         THEN \E prompted \in {EmptyDict, pj.args.parameters} :
                pj' = [pj EXCEPT !.pc = "fill", !.parameters = prompted,
                                 !.trace = Append(@, "promptForParams")]
         ELSE pj' = [pj EXCEPT !.pc = "fill",
                               !.parameters = FreshMap(pj.parameters)]
    /\ UNCHANGED procVars

\* line 361 filling for the json type as well
FillsFor_Mutant(dbType) == dbType \in {"json", "jsonql"}

\* line 361: the branch that fills
FillsFor(dbType) == dbType = "jsonql"

\* lines 360-380, 382-385
PjFill ==
    /\ pj.pc = "fill"
    /\ LET fail(msg) == PjRaise(Wrap("Error: ", Wrap("Error: ", msg)))
           map == PutAll(pj.parameters, JsonEntries(pj.args.connection))
       IN IF ~FillsFor(pj.config.dbType)
          THEN pj' = fail(<<"Invalid json input!">>)
          ELSE \E dsRaises \in BOOLEAN, fillRaises \in BOOLEAN :
                 pj' =
                   IF dsRaises
                   THEN [fail(EngineError) EXCEPT
                            !.trace = Append(@, "getJsonQLDataSource")]
                   ELSE IF pj.file_out = Unbound
                   THEN [fail(<<"local variable 'file_out' referenced before assignment">>)
                            EXCEPT !.trace = Append(@, "getJsonQLDataSource"),
                                   !.parameters = map]
                   ELSE LET called ==
                              [pj EXCEPT
                                 !.trace = @ \o <<"getJsonQLDataSource", "fillReport">>,
                                 !.parameters = map,
                                 !.fill = [file |-> pj.file_out, parameters |-> map]]
                        IN IF fillRaises
                           THEN [called EXCEPT
                                   !.pc = "cleanup",
                                   !.raised = Wrap("Error: ", Wrap("Error: ", EngineError))]
                           ELSE [called EXCEPT !.pc = "export"]
    /\ UNCHANGED procVars

\* lines 381, 384-387
PjExport ==
    /\ pj.pc = "export"
    /\ \E raises \in BOOLEAN :
         pj' = IF raises
               THEN [pj EXCEPT
                       !.pc = "cleanup",
                       !.trace = Append(@, "exportReportToPdfFile"),
                       !.raised = Wrap("Error: ", Wrap("Error: ", EngineError))]
               ELSE [pj EXCEPT
                       !.pc = "cleanup",
                       !.trace = Append(@, "exportReportToPdfFile"),
                       !.pdf = pj.output_file]
    /\ UNCHANGED procVars

\* the TemporaryDirectory exists after the with block is left
TmpDirAfterExit(raised) == FALSE

\* line 268: TemporaryDirectory.__exit__, then the return or the raise
PjCleanup ==
    /\ pj.pc = "cleanup"
    /\ pj' = [pj EXCEPT
                !.pc = "returned",
                !.tmp_dir = TmpDirAfterExit(pj.raised # <<>>),
                !.tmp_files = IF TmpDirAfterExit(pj.raised # <<>>) THEN @ ELSE {},
                !.returned = IF pj.raised = <<>> THEN "0" ELSE "raised"]
    /\ UNCHANGED procVars

\* the caller has the result
PjForget ==
    /\ pj.pc = "returned"
    /\ pj' = PjIdle
    /\ UNCHANGED procVars

NextJson ==
    \/ PjCall
    \/ PjValidate
    \/ PjConfigure
    \/ PjDataSource
    \/ PjFetch
    \/ PjReport
    \/ PjCompile
    \/ PjParams
    \/ PjFill
    \/ PjExport
    \/ PjCleanup
    \/ PjForget

Init ==
    /\ sysOut = OrigOut
    /\ sysIn = OrigIn
    /\ pc = [t \in Threads |-> "idle"]
    /\ args = [t \in Threads |-> NoArgs]
    /\ savedStdin = [t \in Threads |-> NoStream]
    /\ savedStdout = [t \in Threads |-> NoStream]
    /\ exc = [t \in Threads |-> FALSE]
    /\ idx = [t \in Threads |-> 0]
    /\ trace = [t \in Threads |-> <<>>]
    /\ result = [t \in Threads |-> NoMsg]
    /\ overlapped = FALSE
    /\ pj = PjIdle

\* process called by callers that serialize their calls
Next == \E t \in Threads : CallSerial(t) \/ ProcessStep(t)

Spec == Init /\ [][Next]_vars

\* process called from two threads with no serialization
NextConcurrent == \E t \in Threads : CallConcurrent(t) \/ ProcessStep(t)

SpecConcurrent == Init /\ [][NextConcurrent]_vars

\* process_json called by one caller
SpecJson == Init /\ [][NextJson]_vars

----------------------------------------------------------------------------
(* Properties of process. *)

Returned(t) == pc[t] = "returned"
NoneInFlight == \A t \in Threads : ~InFlight(t)
InvalidFormatMsgs == {ErrInvalidFormat, ErrNotList}
ValidationMsgs == {ErrNoInput, ErrInvalidFormat, ErrNotList}
FormatEnum ==
    {"pdf", "rtf", "xls", "xlsx", "docx", "odt", "ods", "pptx", "csv", "html",
     "xhtml", "xml", "jrprint"}

\* the export operation the interface names for each format
ExportName ==
    [pdf |-> "exportPdf", rtf |-> "exportRtf", xls |-> "exportXls",
     xlsx |-> "exportXlsx", docx |-> "exportDocx", odt |-> "exportOdt",
     ods |-> "exportOds", pptx |-> "exportPptx", csv |-> "exportCsv",
     html |-> "exportHtml", xhtml |-> "exportXhtml", xml |-> "exportXml",
     jrprint |-> "exportJrprint"]

IsFillOrExport(e) == e = "fill" \/ \E f \in FormatEnum : e = ExportName[f]
FillAndExports(t) == SelectSeq(trace[t], IsFillOrExport)
IsStreamCall(e) == e \in {"setOut(tmp)", "flush", "setIn(saved)", "setOut(saved)"}
StreamCalls(t) == SelectSeq(trace[t], IsStreamCall)
Has(seq, e) == \E i \in 1..Len(seq) : seq[i] = e

\* C1: process (called with an input file) accepts format_list exactly when it
\* is a non-empty list of values of the 13-value format enum; for every other
\* argument no engine object is created or called and the call fails with
\* InvalidFormat.
C1_FormatListValidated ==
    \A t \in Threads :
        args[t].input_file # "" =>
            LET fl == args[t].format_list
                good == /\ fl.isList
                        /\ Len(fl.items) >= 1
                        /\ \A i \in 1..Len(fl.items) : fl.items[i] \in FormatEnum
            IN IF good
               THEN Returned(t) => result[t] \notin InvalidFormatMsgs
               ELSE /\ trace[t] = <<>>
                    /\ Returned(t) => result[t] \in InvalidFormatMsgs

\* C6: under serialized calls, whenever no call is in flight the process-wide
\* output and input handles are the ones installed before the first call; a
\* call that redirected the output has, when its result or error reaches the
\* caller, flushed and then restored the handles, in that order.
C6_StreamsRestored ==
    /\ NoneInFlight => sysOut = OrigOut /\ sysIn = OrigIn
    /\ \A t \in Threads :
          Returned(t) /\ Has(trace[t], "setOut(tmp)") =>
              /\ StreamCalls(t) =
                    <<"setOut(tmp)", "flush", "setIn(saved)", "setOut(saved)">>
              /\ SubSeq(trace[t], Len(trace[t]) - 2, Len(trace[t])) =
                    <<"flush", "setIn(saved)", "setOut(saved)">>
              /\ result[t] \in {"0", ErrProcess}

\* a call failed at its second export, after the redirection
C6_Witness ==
    \E t \in Threads :
        /\ Returned(t)
        /\ result[t] = ErrProcess
        /\ Len(FillAndExports(t)) = 3
        /\ sysOut = OrigOut

\* the export operations of the first k elements of a format list
ExportsOf(items, k) == [i \in 1..k |-> ExportName[items[i]]]

\* fill once, then the exports of the elements in the order of the list: all of
\* them when the call returns 0, and up to the one that raised when it fails
FillThenExports(t) ==
    LET items == args[t].format_list.items
        calls == FillAndExports(t)
    IN /\ \E k \in 0..Len(items) : calls = <<"fill">> \o ExportsOf(items, k)
       /\ result[t] \in {"0", ErrProcess}
       /\ result[t] = "0" => calls = <<"fill">> \o ExportsOf(items, Len(items))
       /\ exc[t] <=> result[t] = ErrProcess

\* the call's arguments are an input file and a non-empty list of enum values
PassesValidation(t) ==
    /\ args[t].input_file # ""
    /\ args[t].format_list.isList
    /\ Len(args[t].format_list.items) >= 1
    /\ \A i \in 1..Len(args[t].format_list.items) :
          args[t].format_list.items[i] \in FormatEnum
    /\ result[t] \notin ValidationMsgs

\* C7 as stated: every call that passes validation calls fill exactly once and
\* then the export of each element of format_list in order, stopping at the
\* first call that raises, which makes the call fail with ProcessError.
C7_Original ==
    \A t \in Threads :
        Returned(t) /\ PassesValidation(t) => FillThenExports(t)

\* C7, amended: every call that passes validation and reaches the fill step
\* (building the configuration and the Report did not raise) calls fill
\* exactly once and then the export of each element of format_list in order,
\* stopping at the first call that raises, which makes the call fail with
\* ProcessError; a call that does not reach the fill step calls neither.
C7_FillThenExports ==
    \A t \in Threads :
        /\ Returned(t) /\ Has(trace[t], "setOut(tmp)") => FillThenExports(t)
        /\ ~Has(trace[t], "setOut(tmp)") => FillAndExports(t) = <<>>
        /\ InFlight(t) /\ Has(trace[t], "fill") =>
              \E k \in 0..Len(args[t].format_list.items) :
                  FillAndExports(t) =
                      <<"fill">> \o ExportsOf(args[t].format_list.items, k)

\* the first export was done and stays; the second, of the same format,
\* raised; nothing more was called
C7_Witness ==
    \E t \in Threads :
        /\ Returned(t)
        /\ result[t] = ErrProcess
        /\ args[t].format_list.items = <<"xlsx", "xlsx">>
        /\ FillAndExports(t) = <<"fill", "exportXlsx", "exportXlsx">>

\* C8: with no two calls ever in flight at once, the output handle is the
\* original one whenever no call is in flight.
C8_SerializedKeepsStdout ==
    NoneInFlight /\ ~overlapped => sysOut = OrigOut

\* two overlapping calls have both returned and the process-wide output handle
\* is one call's in-memory buffer
C8_Witness ==
    /\ \A t \in Threads : Returned(t) /\ result[t] = "0"
    /\ overlapped
    /\ \E t \in Threads : sysOut = TmpOut(t)

----------------------------------------------------------------------------
(* Properties of process_json. *)

PjReturned == pj.pc = "returned"
PjConn == pj.args.connection
PjEngineRaised == pj.raised # <<>> /\ pj.raised[Len(pj.raised)] = EngineError[1]
MsgInvalidJson == <<"Error: ", "Error: ", "Invalid json input!">>

\* C2: process_json called with an input file and a list holding a string other
\* than 'pdf' builds no engine configuration and fails with InvalidFormat.
C2_OnlyPdfAccepted ==
    /\ pj.args.input_file # <<>>
    /\ pj.args.format_list.isList
    /\ \E i \in 1..Len(pj.args.format_list.items) :
          pj.args.format_list.items[i] # <<"p", "d", "f">>
    => /\ pj.trace = <<>>
       /\ PjReturned => pj.raised = <<"Invalid format output!">>

\* C3: with driver 'jsonql', a data_file and no engine call raising, the call
\* returns 0, the PDF is exported at output_file when given and otherwise at
\* <directory of input>/<base name>.pdf, and fill reads
\* <directory of input>/<base name>.jasper.
C3_JsonqlProducesPdf ==
    /\ PjReturned
    /\ pj.args.input_file = <<"d", "/", "r", ".", "j">>
    /\ pj.args.format_list = OnlyPdf
    /\ "driver" \in DOMAIN PjConn /\ PjConn["driver"] = "jsonql"
    /\ "data_file" \in DOMAIN PjConn
    /\ "url_file" \notin DOMAIN PjConn
    /\ ~PjEngineRaised
    => /\ pj.returned = "0"
       /\ pj.pdf = IF pj.args.output_file = OutputOmitted
                   THEN <<"d", "/", "r", ".", "p", "d", "f">>
                   ELSE pj.args.output_file
       /\ pj.fill.file = <<"d", "/", "r", ".", "j", "a", "s", "p", "e", "r">>

PjNotJsonql == pj.trace # <<>> /\ pj.config.dbType # "jsonql"
PjNeverFilled ==
    /\ pj.fill = NoFill
    /\ pj.pdf = Unbound
    /\ ~Has(pj.trace, "fillReport")
    /\ ~Has(pj.trace, "exportReportToPdfFile")

\* C4 as stated: whenever the data-source type resolved from connection is not
\* jsonql the call fails with UnsupportedDataSource and neither fills nor
\* exports; the call returns 0 only with driver 'jsonql'.
C4_Original ==
    /\ PjNotJsonql => PjNeverFilled
    /\ PjNotJsonql /\ PjReturned => pj.raised = MsgInvalidJson
    /\ pj.returned = "0" => "driver" \in DOMAIN PjConn /\ PjConn["driver"] = "jsonql"

\* the Report was constructed and compile returned
PjCompiled ==
    /\ Has(pj.trace, "compileToFile")
    /\ ~(pj.pc \in {"cleanup", "returned"} /\ PjEngineRaised)

\* C4, amended: whenever the data-source type resolved from connection is not
\* jsonql the call neither fills nor exports and does not return 0; it fails
\* with UnsupportedDataSource once the data-source step, the Report
\* construction and the compile have succeeded, and with the error of the
\* first of those steps that fails otherwise.
C4_NonJsonqlNeverFills ==
    /\ PjNotJsonql => PjNeverFilled /\ pj.returned # "0"
    /\ PjNotJsonql /\ PjReturned /\ PjCompiled => pj.raised = MsgInvalidJson
    /\ PjNotJsonql /\ PjReturned /\ ~PjCompiled =>
          pj.raised # <<>> /\ pj.raised # MsgInvalidJson
    /\ pj.returned = "0" => "driver" \in DOMAIN PjConn /\ PjConn["driver"] = "jsonql"

\* driver 'json' with a data_file: accepted by the driver mapping, refused at
\* the fill step
C4_Witness ==
    /\ PjReturned
    /\ "driver" \in DOMAIN PjConn /\ PjConn["driver"] = "json"
    /\ pj.config.dataFile = <<"data.json">>
    /\ pj.config.dbType = "json"
    /\ pj.raised = MsgInvalidJson

OrEmpty(d, k) == IF k \in DOMAIN d THEN d[k] ELSE EmptyDict

\* C9: the request sent has the connection's url_method and url_file, and its
\* params, data and headers are the connection's url_params, url_data and
\* url_header where present and empty where absent; no call fails for want of
\* url_data.
C9_RequestShape ==
    /\ pj.request # NoRequest =>
          /\ pj.request.method = PjConn["url_method"]
          /\ pj.request.url = PjConn["url_file"]
          /\ pj.request.params = OrEmpty(PjConn, "url_params")
          /\ pj.request.data = OrEmpty(PjConn, "url_data")
          /\ pj.request.headers = OrEmpty(PjConn, "url_header")
    /\ "url_data" \notin DOMAIN PjConn =>
          ~(pj.raised # <<>> /\ pj.raised[Len(pj.raised)] = "'url_data'")

\* the engine's names of the json_* keys present in the connection
C10_ExpectedKeys ==
    {k \in {"JSON_LOCALE", "JSON_DATE_PATTERN", "JSON_NUMBER_PATTERN",
            "JSON_TIME_ZONE"} :
        \/ k = "JSON_LOCALE" /\ "json_locale" \in DOMAIN PjConn
        \/ k = "JSON_DATE_PATTERN" /\ "json_date_pattern" \in DOMAIN PjConn
        \/ k = "JSON_NUMBER_PATTERN" /\ "json_number_pattern" \in DOMAIN PjConn
        \/ k = "JSON_TIME_ZONE" /\ "json_time_zone" \in DOMAIN PjConn}

\* C10: when the template asks for no parameter prompt, the map handed to the
\* engine's fill holds exactly the json_* entries whose keys are in connection
\* and none of the caller's parameters, which were rendered onto the
\* configuration.
C10_FillMapOnlyJsonKeys ==
    pj.fill # NoFill /\ ~Has(pj.trace, "promptForParams") =>
        /\ DOMAIN pj.fill.parameters = C10_ExpectedKeys
        /\ DOMAIN pj.fill.parameters \cap DOMAIN pj.args.parameters = {}
        /\ pj.config.params =
              {<<k, "=", pj.args.parameters[k]>> : k \in DOMAIN pj.args.parameters}

\* the caller passed a parameter and two json_* keys; fill got only the latter
C10_Witness ==
    /\ pj.fill # NoFill
    /\ ~Has(pj.trace, "promptForParams")
    /\ DOMAIN pj.args.parameters = {"title"}
    /\ DOMAIN pj.fill.parameters = {"JSON_LOCALE", "JSON_TIME_ZONE"}

====
